---- MODULE Spec2Model ----
(***************************************************************************)
(* A model of the two request handlers of image-embedding-api:             *)
(*   src/api/embed.ts     POST: CLIP text / image embeddings               *)
(*   src/api/describe.ts  POST: image caption through a chat API           *)
(* Requests of one process run on one event loop: a request runs without   *)
(* interruption from one await to the next, so every action below is the   *)
(* code between two awaits of one request, or the settling of a promise    *)
(* by the environment (library import, model load, upstream call).         *)
(***************************************************************************)
EXTENDS Naturals, FiniteSets, Sequences, TLC

\* ------------------------------------------------------------------ bounds
\* Embedding requests made to one process, numbered in arrival order.
NumRequests == 2
\* Caption requests made to one process, numbered in arrival order.
NumCaptions == 2

Requests == 1..NumRequests
Captions == 1..NumCaptions

\* ------------------------------------------------------- JavaScript values
Undefined == [t |-> "undefined", v |-> ""]
JsNull == [t |-> "null", v |-> ""]
Str(s) == [t |-> "string", v |-> s]
Num(s) == [t |-> "number", v |-> s]

\* typeof x === 'string'
IsString(x) == x.t = "string"

\* JavaScript truthiness of the values above; an array is always truthy.
Truthy(x) ==
  CASE x.t = "undefined" -> FALSE
    [] x.t = "null" -> FALSE
    [] x.t = "string" -> x.v # ""
    [] x.t = "number" -> x.v # "0"
    [] OTHER -> TRUE

\* Array.from(<Float32Array>): a numeric array, possibly empty.
Arr(s) == [t |-> "array", v |-> s]
Embeddings == {Arr(<<1, 2>>)}

\* Thrown values: an Error with a message, or a value without one.
Errors == {[message |-> Str("boom")], [message |-> Undefined]}
NoErr == [message |-> Str("<none>")]

\* ------------------------------------------------------------- promises
\* null, or a promise: the number of the call that created it, its state and
\* (once rejected) its reason.
Null == [id |-> 0, state |-> "null", reason |-> NoErr]
NewPromise(n) == [id |-> n, state |-> "pending", reason |-> NoErr]
Fulfilled(p) == [p EXCEPT !.state = "fulfilled"]
Rejected(p, e) == [p EXCEPT !.state = "rejected", !.reason = e]

Handles == {"processor", "visionModel", "tokenizer", "textModel"}

VARIABLES
  \* embed.ts, module scope
  transformersPromise,  \* line 9
  modelPromise,         \* lines 28-31: handle -> promise or Null
  importCalls,          \* how often import('@xenova/transformers') ran
  loadCalls,            \* handle -> how often its from_pretrained ran
  \* embed.ts, one POST invocation each
  pc, body, out, handles, caught, resp,
  \* describe.ts
  apiKey,               \* process.env.OPENAI_API_KEY is set
  apiCalls,             \* how often chat.completions.create ran
  cpc, form, mime, upstream, cresp

embedVars == <<transformersPromise, modelPromise, importCalls, loadCalls,
               pc, body, out, handles, caught, resp>>
captionVars == <<apiKey, apiCalls, cpc, form, mime, upstream, cresp>>
vars == <<embedVars, captionVars>>

\* ------------------------------------------------------ embed.ts: values
\* The JSON bodies a client may send.  ok = FALSE: req.json() rejects, or the
\* body is not an object and the destructuring throws.
EmptyBody ==
  [ok |-> TRUE, text |-> Undefined, image_url |-> Undefined, image_base64 |-> Undefined]
Bodies ==
  { EmptyBody,
    [EmptyBody EXCEPT !.text = Str("a cat")],
    [EmptyBody EXCEPT !.text = Num("42"), !.image_url = Str("http://x/cat.png")],
    [EmptyBody EXCEPT !.text = Str("a cat"), !.image_base64 = Str("aGVsbG8=")],
    [EmptyBody EXCEPT !.text = Str("a cat"), !.image_url = Str("")],
    [EmptyBody EXCEPT !.ok = FALSE] }

\* The result of one external call: it returns, or throws e.
Outcomes == {[ok |-> TRUE, err |-> NoErr]} \cup {[ok |-> FALSE, err |-> e] : e \in Errors}
\* The import and the loads reject with an Error object.
ImportError == [message |-> Str("Cannot find package '@xenova/transformers'")]
LoadError == [message |-> Str("Could not locate file")]

EmptyOut == [text_embedding |-> Undefined, image_embedding |-> Undefined]
NoResp == [status |-> 0, error |-> Undefined,
           text_embedding |-> Undefined, image_embedding |-> Undefined]
NoHandles == [h \in Handles |-> 0]

Fallback == "Failed to produce CLIP embeddings"
NoInput == "Provide text, image_url, or image_base64."

\* Variants of the memoization test: the result is memoized instead of the
\* promise, so a pending load counts as missing; a failed load is retried.
Unset_untilSettled(p) == p.state \in {"null", "pending"}
Unset_retryRejected(p) == p.state \in {"null", "rejected"}

\* !promise
Unset(p) == p.state = "null"

\* err?.message ?? 'Failed to produce CLIP embeddings'
ErrorMessage(e) ==
  IF e.message.t \in {"undefined", "null"} THEN Str(Fallback) ELSE e.message

\* Variant: the catch block returns the embeddings computed so far as well.
ErrorResponse_partial(e, o) ==
  [status |-> 500, error |-> Str(Fallback),
   text_embedding |-> o.text_embedding, image_embedding |-> o.image_embedding]

\* The catch block's response.
ErrorResponse(e, o) ==
  [status |-> 500, error |-> ErrorMessage(e),
   text_embedding |-> Undefined, image_embedding |-> Undefined]

\* Variant: no check that a branch produced output.
Response_unchecked(o) ==
  [status |-> 200, error |-> Undefined,
   text_embedding |-> o.text_embedding, image_embedding |-> o.image_embedding]

\* The response step: 400 when neither branch produced output, else 200 with
\* JSON.stringify(out), which omits the undefined fields.
Response(o) ==
  IF ~Truthy(o.text_embedding) /\ ~Truthy(o.image_embedding)
  THEN [status |-> 400, error |-> Str(NoInput),
        text_embedding |-> Undefined, image_embedding |-> Undefined]
  ELSE [status |-> 200, error |-> Undefined,
        text_embedding |-> o.text_embedding, image_embedding |-> o.image_embedding]

\* typeof text === 'string'
TextBranch(b) == IsString(b.text)
\* Variant: image_base64 is not looked at.
ImageBranch_urlOnly(b) == Truthy(b.image_url)

\* image_url || image_base64
ImageBranch(b) == Truthy(b.image_url) \/ Truthy(b.image_base64)

\* ----------------------------------------------------- embed.ts: actions
\* getTransformers(): check-then-assign of the import promise, no await between.
GetTransformers ==
  /\ transformersPromise' =
       IF Unset(transformersPromise) THEN NewPromise(importCalls + 1)
       ELSE transformersPromise
  /\ importCalls' = IF Unset(transformersPromise) THEN importCalls + 1 ELSE importCalls

\* The four check-then-assigns of initializeModels(), one synchronous block.
AssignModels ==
  /\ modelPromise' = [h \in Handles |->
       IF Unset(modelPromise[h]) THEN NewPromise(loadCalls[h] + 1) ELSE modelPromise[h]]
  /\ loadCalls' = [h \in Handles |->
       IF Unset(modelPromise[h]) THEN loadCalls[h] + 1 ELSE loadCalls[h]]

\* A throw inside the try block: the catch block answers 500.
Catch(r, e) ==
  /\ pc' = [pc EXCEPT ![r] = "done"]
  /\ caught' = [caught EXCEPT ![r] = e]
  /\ resp' = [resp EXCEPT ![r] = ErrorResponse(e, out[r])]

\* The handler is invoked and suspends at await req.json().
Arrive(r) ==
  /\ pc[r] = "idle"
  /\ IF r = 1 THEN TRUE ELSE pc[r - 1] # "idle"
  /\ pc' = [pc EXCEPT ![r] = "json"]
  /\ UNCHANGED <<transformersPromise, modelPromise, importCalls, loadCalls,
                 body, out, handles, caught, resp>>
  /\ UNCHANGED captionVars

\* Variant: the fields are validated before initializeModels() is called.
ParseBody_validateFirst(r) ==
  /\ pc[r] = "json"
  /\ \E b \in Bodies :
       /\ body' = [body EXCEPT ![r] = b]
       /\ IF b.ok /\ (TextBranch(b) \/ ImageBranch(b))
          THEN /\ GetTransformers
               /\ pc' = [pc EXCEPT ![r] = "awaitImport"]
               /\ UNCHANGED <<caught, resp>>
          ELSE IF b.ok
          THEN /\ pc' = [pc EXCEPT ![r] = "done"]
               /\ resp' = [resp EXCEPT ![r] = Response(EmptyOut)]
               /\ UNCHANGED <<transformersPromise, importCalls, caught>>
          ELSE /\ \E e \in Errors : Catch(r, e)
               /\ UNCHANGED <<transformersPromise, importCalls>>
  /\ UNCHANGED <<modelPromise, loadCalls, out, handles>>
  /\ UNCHANGED captionVars

\* req.json() settles; on success out = {} and initializeModels() runs up to
\* its await getTransformers().
ParseBody(r) ==
  /\ pc[r] = "json"
  /\ \E b \in Bodies :
       /\ body' = [body EXCEPT ![r] = b]
       /\ IF b.ok
          THEN /\ GetTransformers
               /\ pc' = [pc EXCEPT ![r] = "awaitImport"]
               /\ UNCHANGED <<caught, resp>>
          ELSE /\ \E e \in Errors : Catch(r, e)
               /\ UNCHANGED <<transformersPromise, importCalls>>
  /\ UNCHANGED <<modelPromise, loadCalls, out, handles>>
  /\ UNCHANGED captionVars

\* import('@xenova/transformers') settles.
ImportSettles ==
  /\ transformersPromise.state = "pending"
  /\ \E ok \in BOOLEAN :
       transformersPromise' =
         IF ok THEN Fulfilled(transformersPromise)
         ELSE Rejected(transformersPromise, ImportError)
  /\ UNCHANGED <<modelPromise, importCalls, loadCalls, pc, body, out, handles,
                 caught, resp>>
  /\ UNCHANGED captionVars

\* One from_pretrained(...) promise settles.
LoadSettles(h) ==
  /\ modelPromise[h].state = "pending"
  /\ \E ok \in BOOLEAN :
       modelPromise' = [modelPromise EXCEPT ![h] =
         IF ok THEN Fulfilled(@) ELSE Rejected(@, LoadError)]
  /\ UNCHANGED <<transformersPromise, importCalls, loadCalls, pc, body, out,
                 handles, caught, resp>>
  /\ UNCHANGED captionVars

\* initializeModels() resumes from await getTransformers(): it throws the
\* import's rejection, or assigns the four promises and returns them.
InitializeModels(r) ==
  /\ pc[r] = "awaitImport"
  /\ transformersPromise.state \in {"fulfilled", "rejected"}
  /\ IF transformersPromise.state = "rejected"
     THEN /\ Catch(r, transformersPromise.reason)
          /\ UNCHANGED <<modelPromise, loadCalls, handles>>
     ELSE /\ AssignModels
          /\ handles' = [handles EXCEPT ![r] = [h \in Handles |-> modelPromise'[h].id]]
          /\ pc' = [pc EXCEPT ![r] = "awaitInit"]
          /\ UNCHANGED <<caught, resp>>
  /\ UNCHANGED <<transformersPromise, importCalls, body, out>>
  /\ UNCHANGED captionVars

\* From the end of the text branch on, with out = o: the image branch starts
\* (getTransformers() again, then its await), or the response is produced.
ImageOrRespond(r, o) ==
  IF ImageBranch(body[r])
  THEN /\ GetTransformers
       /\ pc' = [pc EXCEPT ![r] = "awaitTransformers"]
       /\ UNCHANGED resp
  ELSE /\ pc' = [pc EXCEPT ![r] = "done"]
       /\ resp' = [resp EXCEPT ![r] = Response(o)]
       /\ UNCHANGED <<transformersPromise, importCalls>>

\* POST resumes from await initializeModels().
AfterInit(r) ==
  /\ pc[r] = "awaitInit"
  /\ IF TextBranch(body[r])
     THEN /\ pc' = [pc EXCEPT ![r] = "awaitTextModels"]
          /\ UNCHANGED <<transformersPromise, importCalls, resp>>
     ELSE ImageOrRespond(r, out[r])
  /\ UNCHANGED <<modelPromise, loadCalls, body, out, handles, caught>>
  /\ UNCHANGED captionVars

\* Promise.all(hs) has settled: rejected as soon as one of hs is, fulfilled
\* when all are.
AllSettled(hs) ==
  \/ \E h \in hs : modelPromise[h].state = "rejected"
  \/ \A h \in hs : modelPromise[h].state = "fulfilled"
\* Variant: Promise.allSettled, which never rejects.
RejectedOf_allSettled(hs) == {}
RejectedOf(hs) == {h \in hs : modelPromise[h].state = "rejected"}

\* await Promise.all([tokenizerPromise, textModelPromise]), then tok([text])
\* and the call of textModel(inputs).
TextModelsReady(r) ==
  /\ pc[r] = "awaitTextModels"
  /\ AllSettled({"tokenizer", "textModel"})
  /\ IF RejectedOf({"tokenizer", "textModel"}) # {}
     THEN \E h \in RejectedOf({"tokenizer", "textModel"}) :
            Catch(r, modelPromise[h].reason)
     ELSE \E res \in Outcomes :
            IF res.ok
            THEN /\ pc' = [pc EXCEPT ![r] = "awaitTextInfer"]
                 /\ UNCHANGED <<caught, resp>>
            ELSE Catch(r, res.err)
  /\ UNCHANGED <<transformersPromise, modelPromise, importCalls, loadCalls,
                 body, out, handles>>
  /\ UNCHANGED captionVars

\* textModel(inputs) settles; out.text_embedding is set and the handler runs
\* on to the image branch or the response.
TextInfer(r) ==
  /\ pc[r] = "awaitTextInfer"
  /\ \E res \in Outcomes :
       IF res.ok
       THEN \E emb \in Embeddings :
              /\ out' = [out EXCEPT ![r].text_embedding = emb]
              /\ ImageOrRespond(r, out'[r])
              /\ UNCHANGED caught
       ELSE /\ Catch(r, res.err)
            /\ UNCHANGED <<transformersPromise, importCalls, out>>
  /\ UNCHANGED <<modelPromise, loadCalls, body, handles>>
  /\ UNCHANGED captionVars

\* The image branch resumes from await getTransformers().
ImageTransformers(r) ==
  /\ pc[r] = "awaitTransformers"
  /\ transformersPromise.state \in {"fulfilled", "rejected"}
  /\ IF transformersPromise.state = "rejected"
     THEN Catch(r, transformersPromise.reason)
     ELSE /\ pc' = [pc EXCEPT ![r] = "awaitVisionModels"]
          /\ UNCHANGED <<caught, resp>>
  /\ UNCHANGED <<transformersPromise, modelPromise, importCalls, loadCalls,
                 body, out, handles>>
  /\ UNCHANGED captionVars

\* await Promise.all([processorPromise, visionModelPromise]), then the call of
\* RawImage.read(...) on the URL or the synthesized data URL.
VisionModelsReady(r) ==
  /\ pc[r] = "awaitVisionModels"
  /\ AllSettled({"processor", "visionModel"})
  /\ IF RejectedOf({"processor", "visionModel"}) # {}
     THEN \E h \in RejectedOf({"processor", "visionModel"}) :
            Catch(r, modelPromise[h].reason)
     ELSE /\ pc' = [pc EXCEPT ![r] = "awaitRead"]
          /\ UNCHANGED <<caught, resp>>
  /\ UNCHANGED <<transformersPromise, modelPromise, importCalls, loadCalls,
                 body, out, handles>>
  /\ UNCHANGED captionVars

\* RawImage.read(...) settles, then proc(image) is called.
ImageRead(r) ==
  /\ pc[r] = "awaitRead"
  /\ \E res \in Outcomes :
       IF res.ok
       THEN /\ pc' = [pc EXCEPT ![r] = "awaitProc"]
            /\ UNCHANGED <<caught, resp>>
       ELSE Catch(r, res.err)
  /\ UNCHANGED <<transformersPromise, modelPromise, importCalls, loadCalls,
                 body, out, handles>>
  /\ UNCHANGED captionVars

\* proc(image) settles, then visionModel(image_inputs) is called.
Proc(r) ==
  /\ pc[r] = "awaitProc"
  /\ \E res \in Outcomes :
       IF res.ok
       THEN /\ pc' = [pc EXCEPT ![r] = "awaitVision"]
            /\ UNCHANGED <<caught, resp>>
       ELSE Catch(r, res.err)
  /\ UNCHANGED <<transformersPromise, modelPromise, importCalls, loadCalls,
                 body, out, handles>>
  /\ UNCHANGED captionVars

\* visionModel(image_inputs) settles; out.image_embedding is set and the
\* response is produced.
VisionInfer(r) ==
  /\ pc[r] = "awaitVision"
  /\ \E res \in Outcomes :
       IF res.ok
       THEN \E emb \in Embeddings :
              /\ out' = [out EXCEPT ![r].image_embedding = emb]
              /\ pc' = [pc EXCEPT ![r] = "done"]
              /\ resp' = [resp EXCEPT ![r] = Response(out'[r])]
              /\ UNCHANGED caught
       ELSE /\ Catch(r, res.err)
            /\ UNCHANGED out
  /\ UNCHANGED <<transformersPromise, modelPromise, importCalls, loadCalls,
                 body, handles>>
  /\ UNCHANGED captionVars

EmbedInit ==
  /\ transformersPromise = Null
  /\ modelPromise = [h \in Handles |-> Null]
  /\ importCalls = 0
  /\ loadCalls = [h \in Handles |-> 0]
  /\ pc = [r \in Requests |-> "idle"]
  /\ body = [r \in Requests |-> EmptyBody]
  /\ out = [r \in Requests |-> EmptyOut]
  /\ handles = [r \in Requests |-> NoHandles]
  /\ caught = [r \in Requests |-> NoErr]
  /\ resp = [r \in Requests |-> NoResp]

\* --------------------------------------------------- describe.ts: values
\* formData.get('image'): null when the field is absent, a string for a text
\* field, a File (with its declared type, possibly empty) for an upload.
File(type) == [t |-> "file", v |-> type]
ImageFields == {JsNull, Str(""), Str("cat.png"), File(""), File("image/png")}
NoForm == [ok |-> FALSE, image |-> JsNull]
Forms == [ok : {TRUE}, image : ImageFields] \cup {NoForm}

\* The chat API's answers: choices, each with an optional message and content.
Choice(hasMessage, content) == [hasMessage |-> hasMessage, content |-> content]
NoReply == [ok |-> FALSE, choices |-> <<>>]
Replies ==
  { [ok |-> TRUE, choices |-> <<>>],
    [ok |-> TRUE, choices |-> <<Choice(FALSE, Undefined)>>],
    [ok |-> TRUE, choices |-> <<Choice(TRUE, Undefined)>>],
    [ok |-> TRUE, choices |-> <<Choice(TRUE, JsNull)>>],
    [ok |-> TRUE, choices |-> <<Choice(TRUE, Str(""))>>],
    [ok |-> TRUE, choices |-> <<Choice(TRUE, Str("A cat."))>>],
    [ok |-> TRUE, choices |-> <<Choice(TRUE, Str("")), Choice(TRUE, Str("A dog."))>>],
    NoReply }

NoFile == "No image file provided"
Failed == "Failed to process image"
NoCaptionResp == [status |-> 0, error |-> Undefined, caption |-> Undefined]

\* response.choices[0]?.message?.content
FirstContent(reply) ==
  IF Len(reply.choices) = 0 THEN Undefined
  ELSE IF ~reply.choices[1].hasMessage THEN Undefined
  ELSE reply.choices[1].content

\* Variant: caption === undefined.
NoCaption_undefinedOnly(caption) == caption = Undefined

\* !caption
NoCaption(caption) == ~Truthy(caption)

\* Variant: file === undefined, which formData.get never returns.
NoImage_undefinedOnly(file) == file = Undefined

\* !file
NoImage(file) == ~Truthy(file)

\* file.type || 'image/jpeg'
MimeType(file) == IF Truthy(Str(file.v)) THEN file.v ELSE "image/jpeg"

\* Variant: the client is built without looking at the environment.
KeyMissing_unchecked == FALSE

\* !process.env.OPENAI_API_KEY
KeyMissing == ~apiKey

\* -------------------------------------------------- describe.ts: actions
\* A throw inside the try block: the catch block logs and answers 500.
CaptionCatch(c) ==
  /\ cpc' = [cpc EXCEPT ![c] = "done"]
  /\ cresp' = [cresp EXCEPT ![c] =
       [status |-> 500, error |-> Str(Failed), caption |-> Undefined]]

\* The handler is invoked and suspends at await request.formData().
CaptionArrive(c) ==
  /\ cpc[c] = "idle"
  /\ IF c = 1 THEN TRUE ELSE cpc[c - 1] # "idle"
  /\ cpc' = [cpc EXCEPT ![c] = "formData"]
  /\ UNCHANGED <<apiKey, apiCalls, form, mime, upstream, cresp>>
  /\ UNCHANGED embedVars

\* request.formData() settles; without a file the answer is 400, else
\* convertFileToBase64(file) runs up to its await file.arrayBuffer().
ParseForm(c) ==
  /\ cpc[c] = "formData"
  /\ \E f \in Forms :
       /\ form' = [form EXCEPT ![c] = f]
       /\ IF ~f.ok THEN CaptionCatch(c)
          ELSE IF NoImage(f.image)
          THEN /\ cpc' = [cpc EXCEPT ![c] = "done"]
               /\ cresp' = [cresp EXCEPT ![c] =
                    [status |-> 400, error |-> Str(NoFile), caption |-> Undefined]]
          ELSE /\ cpc' = [cpc EXCEPT ![c] = "arrayBuffer"]
               /\ UNCHANGED cresp
  /\ UNCHANGED <<apiKey, apiCalls, mime, upstream>>
  /\ UNCHANGED embedVars

\* file.arrayBuffer() settles (a string has no such method: TypeError); then
\* generateImageDescription(base64, mimeType) runs up to its await of
\* openai.chat.completions.create(...), or getOpenAIClient() throws.
ConvertFile(c) ==
  /\ cpc[c] = "arrayBuffer"
  /\ \E ok \in BOOLEAN :
       IF form[c].image.t # "file" \/ ~ok
       THEN /\ CaptionCatch(c)
            /\ UNCHANGED <<mime, apiCalls>>
       ELSE /\ mime' = [mime EXCEPT ![c] = MimeType(form[c].image)]
            /\ IF KeyMissing
               THEN /\ CaptionCatch(c)
                    /\ UNCHANGED apiCalls
               ELSE /\ apiCalls' = apiCalls + 1
                    /\ cpc' = [cpc EXCEPT ![c] = "create"]
                    /\ UNCHANGED cresp
  /\ UNCHANGED <<apiKey, form, upstream>>
  /\ UNCHANGED embedVars

\* The chat API call settles; the caption is checked and returned.
UpstreamReplies(c) ==
  /\ cpc[c] = "create"
  /\ \E reply \in Replies :
       /\ upstream' = [upstream EXCEPT ![c] = reply]
       /\ IF ~reply.ok \/ NoCaption(FirstContent(reply))
          THEN CaptionCatch(c)
          ELSE /\ cpc' = [cpc EXCEPT ![c] = "done"]
               /\ cresp' = [cresp EXCEPT ![c] =
                    [status |-> 200, error |-> Undefined,
                     caption |-> FirstContent(reply)]]
  /\ UNCHANGED <<apiKey, apiCalls, form, mime>>
  /\ UNCHANGED embedVars

CaptionIdle ==
  /\ apiCalls = 0
  /\ cpc = [c \in Captions |-> "idle"]
  /\ form = [c \in Captions |-> NoForm]
  /\ mime = [c \in Captions |-> ""]
  /\ upstream = [c \in Captions |-> NoReply]
  /\ cresp = [c \in Captions |-> NoCaptionResp]

\* The embedding handler's process.
Init == EmbedInit /\ CaptionIdle /\ apiKey = TRUE

\* The caption handler's process, with or without the credential.
CaptionInit == EmbedInit /\ CaptionIdle /\ apiKey \in BOOLEAN

CaptionNext ==
  \E c \in Captions :
    \/ CaptionArrive(c)
    \/ ParseForm(c)
    \/ ConvertFile(c)
    \/ UpstreamReplies(c)

CaptionSpec == CaptionInit /\ [][CaptionNext]_vars

Next ==
  \/ \E r \in Requests :
       \/ Arrive(r)
       \/ ParseBody(r)
       \/ InitializeModels(r)
       \/ AfterInit(r)
       \/ TextModelsReady(r)
       \/ TextInfer(r)
       \/ ImageTransformers(r)
       \/ VisionModelsReady(r)
       \/ ImageRead(r)
       \/ Proc(r)
       \/ VisionInfer(r)
  \/ ImportSettles
  \/ \E h \in Handles : LoadSettles(h)

Spec == Init /\ [][Next]_vars

\* ------------------------------------------------------------ properties
Done(r) == pc[r] = "done"
Initialized(r) == handles[r] # NoHandles
TextPcs == {"awaitTextModels", "awaitTextInfer"}
ImagePcs == {"awaitTransformers", "awaitVisionModels", "awaitRead", "awaitProc",
             "awaitVision"}
Present(x) == x # Undefined
OnlyError(rsp, msg) ==
  /\ rsp.error = msg
  /\ rsp.text_embedding = Undefined
  /\ rsp.image_embedding = Undefined

\* C1: with any interleaving of the requests at their awaits, the import and
\* each of the four loads is issued at most once; the memoized promise is the
\* one that call created (never reassigned, never cleared); every request that
\* has run initializeModels() holds the same four promises.
C1_LoadedOnce ==
  /\ importCalls <= 1
  /\ transformersPromise.id = importCalls
  /\ \A h \in Handles :
       /\ loadCalls[h] <= 1
       /\ modelPromise[h].id = loadCalls[h]
  /\ \A r \in Requests :
       Initialized(r) => \A h \in Handles :
         /\ handles[r][h] = 1
         /\ handles[r][h] = modelPromise[h].id

\* Two requests are suspended together, both past initializeModels().
C1_Witness ==
  /\ NumRequests >= 2
  /\ \A r \in {1, 2} : pc[r] = "awaitInit" /\ Initialized(r)
  /\ \A h \in Handles : loadCalls[h] = 1 /\ modelPromise[h].state = "pending"

\* C2 as stated: a request that reaches the response step without a throw and
\* to which a branch applies is answered 200, with text_embedding exactly when
\* text is a string and image_embedding exactly when image_url or image_base64
\* is given (present in the body).
C2_AsStated ==
  \A r \in Requests :
    (Done(r) /\ body[r].ok /\ caught[r] = NoErr
       /\ (IsString(body[r].text) \/ Present(body[r].image_url)
             \/ Present(body[r].image_base64)))
    => /\ resp[r].status = 200
       /\ Present(resp[r].text_embedding) <=> IsString(body[r].text)
       /\ Present(resp[r].image_embedding) <=>
            (Present(body[r].image_url) \/ Present(body[r].image_base64))

\* C2 amended: as C2, with "given" read as the code's test: image_url or
\* image_base64 is a non-empty (truthy) value.
C2_FieldsMatchBranches ==
  \A r \in Requests :
    (Done(r) /\ body[r].ok /\ caught[r] = NoErr
       /\ (IsString(body[r].text) \/ Truthy(body[r].image_url)
             \/ Truthy(body[r].image_base64)))
    => /\ resp[r].status = 200
       /\ resp[r].error = Undefined
       /\ Present(resp[r].text_embedding) <=> IsString(body[r].text)
       /\ Present(resp[r].image_embedding) <=>
            (Truthy(body[r].image_url) \/ Truthy(body[r].image_base64))

\* One request answered 200 with both embeddings, one with text_embedding
\* only although its body gives an (empty) image_url.
C2_Witness ==
  \E r, q \in Requests :
    /\ Done(r) /\ resp[r].status = 200
    /\ Present(resp[r].text_embedding) /\ Present(resp[r].image_embedding)
    /\ Done(q) /\ resp[q].status = 200
    /\ body[q].image_url = Str("")
    /\ Present(resp[q].text_embedding) /\ ~Present(resp[q].image_embedding)

\* C3 as stated: every request whose body carries none of the three fields is
\* answered 400 with the "Provide ..." message, whatever happened before.
C3_AsStated ==
  \A r \in Requests :
    (Done(r) /\ body[r] = EmptyBody)
    => resp[r].status = 400 /\ OnlyError(resp[r], Str(NoInput))

\* C3 amended: such a request is answered 400 with that message when the
\* library import succeeds, whatever the four loads and the earlier requests
\* did; when the import fails it is answered 500 with the import's error.
C3_EmptyBodyAnswer ==
  \A r \in Requests :
    (Done(r) /\ body[r] = EmptyBody)
    => IF transformersPromise.state = "fulfilled"
       THEN resp[r].status = 400 /\ OnlyError(resp[r], Str(NoInput))
       ELSE /\ transformersPromise.state = "rejected"
            /\ resp[r].status = 500
            /\ OnlyError(resp[r], ImportError.message)

\* An empty body is answered 400 after an earlier request failed on a load
\* that has been rejected.
C3_Witness ==
  /\ NumRequests >= 2
  /\ Done(1) /\ resp[1].status = 500 /\ caught[1] = LoadError
  /\ Done(2) /\ body[2] = EmptyBody /\ resp[2].status = 400
  /\ \E h \in Handles : modelPromise[h].state = "rejected"

\* C6 as stated: a failed load of any of the four models, while a request
\* holding that load's promise is in flight, leaves the request with a 500:
\* a request that completes while one of the promises initializeModels()
\* returned to it is rejected is answered 500.
C6_AsStated ==
  [][\A r \in Requests :
       (/\ pc[r] \notin {"idle", "done"}
        /\ pc'[r] = "done"
        /\ \E h \in Handles :
             handles[r][h] # 0 /\ modelPromise[h].state = "rejected")
       => resp'[r].status = 500]_vars

\* C6 amended: every error thrown at an await of the request (the body parse,
\* the import, the loads its branches await, the image read, the inference
\* calls) is caught and answered 500 with only an error field, which holds the
\* error's message or the fallback string; a request answered 200 or 400 has
\* seen the import succeed and every load its branches await succeed.
C6_ThrownErrorsCaught ==
  \A r \in Requests :
    Done(r) =>
      /\ (~body[r].ok \/ caught[r] # NoErr \/ transformersPromise.state = "rejected")
         => /\ resp[r].status = 500
            /\ caught[r] # NoErr
            /\ OnlyError(resp[r],
                 IF IsString(caught[r].message) THEN caught[r].message
                 ELSE Str(Fallback))
      /\ resp[r].status \in {200, 400}
         => /\ transformersPromise.state = "fulfilled"
            /\ IsString(body[r].text) =>
                 \A h \in {"tokenizer", "textModel"} :
                   modelPromise[h].state = "fulfilled"
            /\ (Truthy(body[r].image_url) \/ Truthy(body[r].image_base64)) =>
                 \A h \in {"processor", "visionModel"} :
                   modelPromise[h].state = "fulfilled"
      /\ resp[r].status \in {200, 400, 500}

\* One request is answered 500 with the fallback string, another with the
\* message of a failed load it awaited.
C6_Witness ==
  \E r, q \in Requests :
    /\ Done(r) /\ caught[r].message = Undefined
    /\ resp[r].status = 500 /\ resp[r].error = Str(Fallback)
    /\ Done(q) /\ caught[q] = LoadError
    /\ resp[q].status = 500 /\ resp[q].error = LoadError.message

\* C8: within a request the text branch is over before the image branch
\* starts; a response never carries an error field together with an embedding
\* field; a failure in the image branch after text_embedding was computed is
\* answered 500 with only the error field.
C8_NoPartialSuccess ==
  \A r \in Requests :
    /\ pc[r] \in TextPcs => ~Present(out[r].image_embedding)
    /\ (pc[r] \in ImagePcs /\ IsString(body[r].text)) => Present(out[r].text_embedding)
    /\ Present(resp[r].error) =>
         ~Present(resp[r].text_embedding) /\ ~Present(resp[r].image_embedding)
    /\ (Done(r) /\ caught[r] # NoErr) =>
         resp[r].status = 500 /\ Present(resp[r].error)

\* The image branch failed after the text branch had set out.text_embedding.
C8_Witness ==
  \E r \in Requests :
    /\ Done(r) /\ resp[r].status = 500
    /\ Present(out[r].text_embedding) /\ ~Present(out[r].image_embedding)
    /\ Truthy(body[r].image_base64)

\* C9: validation comes after initialization: a request that is answered 400,
\* or is in an embedding step, finds all four load promises assigned (the
\* loads kicked off and memoized) and holds them.
C9_InitBeforeValidation ==
  \A r \in Requests :
    (resp[r].status = 400 \/ pc[r] \in TextPcs \cup ImagePcs)
    => /\ Initialized(r)
       /\ \A h \in Handles : ~Unset(modelPromise[h]) /\ loadCalls[h] = 1

\* The first request of the process carries no field and is answered 400 with
\* the four loads kicked off and still pending.
C9_Witness ==
  /\ Done(1) /\ body[1] = EmptyBody /\ resp[1].status = 400
  /\ \A r \in Requests \ {1} : pc[r] = "idle"
  /\ \A h \in Handles : modelPromise[h].state = "pending"

\* C10: a rejected import or load stays memoized and rejected and is not
\* issued again; a request that resumes from an await of a rejected promise
\* is answered 500; a request answered 200 awaited no rejected promise.
AwaitsRejected(r) ==
  \/ pc[r] \in {"awaitImport", "awaitTransformers"}
       /\ transformersPromise.state = "rejected"
  \/ pc[r] = "awaitTextModels"
       /\ \E h \in {"tokenizer", "textModel"} : modelPromise[h].state = "rejected"
  \/ pc[r] = "awaitVisionModels"
       /\ \E h \in {"processor", "visionModel"} : modelPromise[h].state = "rejected"
C10_StickyFailure ==
  [][/\ transformersPromise.state = "rejected"
          => transformersPromise' = transformersPromise /\ importCalls' = importCalls
     /\ \A h \in Handles :
          modelPromise[h].state = "rejected"
            => modelPromise'[h] = modelPromise[h] /\ loadCalls'[h] = loadCalls[h]
     /\ \A r \in Requests :
          /\ (AwaitsRejected(r) /\ pc'[r] # pc[r])
               => pc'[r] = "done" /\ resp'[r].status = 500
          /\ (pc'[r] = "done" /\ resp'[r].status = 200)
               => /\ transformersPromise'.state = "fulfilled"
                  /\ Present(resp'[r].text_embedding) =>
                       \A h \in {"tokenizer", "textModel"} :
                         modelPromise'[h].state = "fulfilled"
                  /\ Present(resp'[r].image_embedding) =>
                       \A h \in {"processor", "visionModel"} :
                         modelPromise'[h].state = "fulfilled"]_vars

\* Two requests, one after the other, were answered 500 by the same failed
\* load, which was issued once.
C10_Witness ==
  /\ NumRequests >= 2
  /\ modelPromise["tokenizer"].state = "rejected" /\ loadCalls["tokenizer"] = 1
  /\ \A r \in {1, 2} :
       Done(r) /\ resp[r].status = 500 /\ resp[r].error = LoadError.message
  /\ IsString(body[1].text) /\ IsString(body[2].text)

\* C4: a 200 response carries the first choice's content, a non-empty string;
\* an upstream answer with no choice, or whose first choice has no message, or
\* absent, null or empty content, is answered 500 "Failed to process image".
EmptyContent(reply) ==
  \/ Len(reply.choices) = 0
  \/ ~reply.choices[1].hasMessage
  \/ reply.choices[1].content \in {Undefined, JsNull, Str("")}
C4_NoEmptyCaption ==
  \A c \in Captions :
    cpc[c] = "done" =>
      /\ cresp[c].status = 200 =>
           /\ upstream[c].ok /\ ~EmptyContent(upstream[c])
           /\ cresp[c].caption = upstream[c].choices[1].content
           /\ IsString(cresp[c].caption) /\ cresp[c].caption.v # ""
           /\ cresp[c].error = Undefined
      /\ (upstream[c].ok /\ EmptyContent(upstream[c])) =>
           /\ cresp[c].status = 500
           /\ cresp[c].error = Str(Failed) /\ cresp[c].caption = Undefined

\* The upstream answered with an empty first content (and a second choice).
C4_Witness ==
  \E c \in Captions :
    /\ cpc[c] = "done" /\ cresp[c].status = 500
    /\ upstream[c].ok /\ Len(upstream[c].choices) = 2
    /\ upstream[c].choices[1].content = Str("")

\* C5: a form without an image field is answered 400 "No image file
\* provided", with or without the credential; an uploaded file whose upstream
\* call answers with content is answered 200.
C5_MissingFile400 ==
  \A c \in Captions :
    cpc[c] = "done" =>
      /\ (form[c].ok /\ form[c].image = JsNull) =>
           /\ cresp[c].status = 400
           /\ cresp[c].error = Str(NoFile) /\ cresp[c].caption = Undefined
      /\ (upstream[c].ok /\ ~EmptyContent(upstream[c])) =>
           /\ form[c].image.t = "file"
           /\ cresp[c].status = 200

\* One request without the field is answered 400, one with a file 200.
C5_Witness ==
  \E c, d \in Captions :
    /\ cpc[c] = "done" /\ form[c].ok /\ form[c].image = JsNull
    /\ cresp[c].status = 400
    /\ cpc[d] = "done" /\ form[d].image = File("") /\ mime[d] = "image/jpeg"
    /\ cresp[d].status = 200

\* C7 as stated: without the credential every caption request is answered
\* 500 "Failed to process image" and the chat API is never called.
C7_AsStated ==
  ~apiKey =>
    /\ apiCalls = 0
    /\ \A c \in Captions :
         cpc[c] = "done" =>
           cresp[c].status = 500 /\ cresp[c].error = Str(Failed)

\* C7 amended: without the credential the chat API is never called; a request
\* whose form has an image field that is not empty is answered 500 "Failed to
\* process image", a request without one is answered 400 as in C5.
C7_NoKeyNoCall ==
  ~apiKey =>
    /\ apiCalls = 0
    /\ \A c \in Captions :
         cpc[c] = "done" =>
           IF form[c].ok /\ form[c].image \in {JsNull, Str("")}
           THEN cresp[c].status = 400 /\ cresp[c].error = Str(NoFile)
           ELSE cresp[c].status = 500 /\ cresp[c].error = Str(Failed)

\* An uploaded file was converted and the request answered 500 for want of
\* the credential.
C7_Witness ==
  /\ ~apiKey
  /\ \E c \in Captions :
       /\ cpc[c] = "done" /\ form[c].image = File("image/png")
       /\ mime[c] = "image/png"
       /\ cresp[c].status = 500

====
